---- MODULE Spec2Model ----
(***************************************************************************)
(* Model of the build orchestrator of biothings/databuild/builder.py:      *)
(* DataBuilder.register_status (the build status ledger), DataBuilder.merge,*)
(* DataBuilder.merge_resume, DataBuilder.merge_sources and                 *)
(* DataBuilder.merge_source.                                               *)
(*                                                                         *)
(* A dict is a function from the key set Fields to options: <<>> is an     *)
(* absent key, <<v>> a key holding v.  The keys 'logfile' and              *)
(* 'target_backend' hold per-orchestrator constants and are left out.      *)
(* parallel_engine is None: merge takes the merge_sources branch.          *)
(*                                                                         *)
(* The lineage graph of biothings/hub/datatransform/record_chain.py        *)
(* (RecChain) is modelled next to it: the networkx DiGraph is a record of  *)
(* its nodes and its edges, both in insertion order.                       *)
(***************************************************************************)
EXTENDS Integers, Sequences, FiniteSets, TLC

\* ------------------------------------------------------------------ bounds
\* max_build_status of the orchestrator (a constructor parameter).
max_build_status == 2
\* Batches doc_feeder yields for every source.
NumBatches == 2
\* Top-level calls (merge, merge_resume) of one behaviour.
MaxCalls == 2
\* Edges a RecChain holds at most.
MaxEdges == 4

\* ------------------------------------------------------- build configuration
\* _build_config['sources']: the declared sources, in declaration order.
ConfigSources == <<"a", "b", "c">>

SourceNames == {ConfigSources[i] : i \in DOMAIN ConfigSources}

\* Document ids of batch j of source s: every source holds ids it shares with
\* another source and, in "c", ids of its own.
BatchIds(s, j) ==
    CASE s = "a" -> {j, 10 + j}
      [] s = "b" -> {j, 20 + j}
      [] OTHER   -> {10 + j, 20 + j, 30 + j}

\* ------------------------------------------------------------ dict helpers
Fields == {"status", "started_at", "target_name", "pid", "time", "step",
           "sources", "progress", "stats", "src_versions", "err"}

\* The empty dict.
EmptyDict == [f \in Fields |-> <<>>]

\* dict.get(key): the value, or None (modelled as the absent option).
Get(d, f) == d[f]

\* Python truthiness of a dict.get(key) holding a string: absent, None and ""
\* are falsy.
TruthyStr(opt) == opt # <<>> /\ opt[1] # ""

\* Python truthiness of a dict.get(key) holding a list: absent, None and []
\* are falsy.
TruthyList(opt) == opt # <<>> /\ opt[1] # <<>>

\* dict.update(other): keys of other overwrite, the other keys are kept.
DictUpdate(d, other) == [f \in Fields |-> IF other[f] = <<>> THEN d[f] ELSE other[f]]

\* list.index(x): position of the first occurrence.
IndexOf(seq, x) == CHOOSE i \in DOMAIN seq : seq[i] = x /\ \A j \in 1..(i - 1) : seq[j] # x

\* seq[i:] with a 1-based i.
SliceFrom(seq, i) == SubSeq(seq, i, Len(seq))

Range(seq) == {seq[i] : i \in DOMAIN seq}

\* ------------------------------------------------------------------- state
VARIABLES
    build,        \* cfg["build"]: the persisted history of build records
    doc_root_key, \* TRUE when the orchestrator has a doc_root_key
    root_cfg,     \* _build_config[doc_root_key]: the declared root sources
    id_mappers,   \* self.id_mappers: names of the registered mappers
    target_name,  \* target_backend.target_name
    target_docs,  \* ids of the documents of the target collection
    target_log,   \* calls made on target_backend, in order
    pc,           \* position of the orchestrator inside merge
    sources,      \* merge's normalised `sources`
    order,        \* merge_sources' reordered source_names
    idx,          \* position of merge_sources' loop in order (1-based)
    batch,        \* batches of the current source written so far
    cnt,          \* merge_source's cnt
    stats,        \* merge_sources' _stats
    t0,           \* self.t0
    now,          \* the wall clock
    calls,        \* top-level calls made so far
    last_call,    \* the last top-level call and how merge was entered
    outcome,      \* how the last top-level call ended
    error,        \* the exception the last top-level call raised
    raised_at,    \* where merge was when that exception was raised
    log_start,    \* length of target_log when the current merge was entered
    validation,   \* what the finally block of the last merge did
    graph,        \* RecChain.graph: the lineage graph of one RecChain
    race          \* two orchestrators inside register_status on one configuration

vars == <<build, doc_root_key, root_cfg, id_mappers, target_name, target_docs, target_log,
          pc, sources, order, idx, batch, cnt, stats, t0, now, calls,
          last_call, outcome, error, raised_at, log_start, validation, graph, race>>

\* The variables of the orchestrator.
builder_vars == <<build, doc_root_key, root_cfg, id_mappers, target_name, target_docs,
                  target_log, pc, sources, order, idx, batch, cnt, stats, t0, now,
                  calls, last_call, outcome, error, raised_at, log_start, validation, race>>

\* os.getpid()
Pid == "pid"

\* ----------------------------------------------------------- register_status
\* build_info as first built: status, started_at and target_name (tname is
\* target_backend.target_name at the call) always, pid when transient, the
\* elapsed time otherwise.
BuildInfo(status, transient, tname) ==
    [EmptyDict EXCEPT
        !["status"] = <<status>>,
        !["started_at"] = <<now>>,
        !["target_name"] = <<tname>>,
        !["pid"] = IF transient THEN <<Pid>> ELSE <<>>,
        !["time"] = IF transient THEN <<>> ELSE <<now - t0>>]

\* extra without a "build" keyword.
NoExtra == [has_build |-> FALSE, build |-> EmptyDict]

\* extra with build=d.
ExtraBuild(d) == [has_build |-> TRUE, build |-> d]

\* build_info after build_info.update(extra["build"]).
FullInfo(status, transient, extra, tname) ==
    IF extra.has_build
    THEN DictUpdate(BuildInfo(status, transient, tname), extra.build)
    ELSE BuildInfo(status, transient, tname)

\* _cfg["build"][-1] raises IndexError on an empty history.
RegisterRaises(hist, extra) == extra.has_build /\ hist = <<>>

\* _cfg["build"][-1].update(build_info); replace_one(_cfg): done whenever
\* extra carries "build", init or not.
MergeIntoLast(hist, info, extra) ==
    IF extra.has_build
    THEN [hist EXCEPT ![Len(hist)] = DictUpdate(@, info)]
    ELSE hist

\* $push of build_info when init.
Pushed(hist, info, init) == IF init THEN Append(hist, info) ELSE hist

\* howmany: computed on _cfg, the document as read BEFORE the push.
HowMany(hist, init) ==
    IF init /\ Len(hist) > max_build_status
    THEN Len(hist) - max_build_status
    ELSE 0

\* howmany times $pop -1: drops that many records from the front.
Popped(hist, n) == SubSeq(hist, n + 1, Len(hist))

\* The history register_status leaves (when it does not raise).
RegisterStatus(hist, status, transient, init, extra, tname) ==
    LET info == FullInfo(status, transient, extra, tname)
    IN  Popped(Pushed(MergeIntoLast(hist, info, extra), info, init),
               HowMany(hist, init))

\* ------------------------------------------------------------- the target
\* target_backend.update(docs, upsert): an upsert writes every document, an
\* update-only write touches the documents the target already holds.
TargetWrite(docs, ids, upsert) == IF upsert THEN docs \cup ids ELSE docs

\* The affected-document count update returns.
TargetAffected(docs, ids, upsert) ==
    IF upsert THEN Cardinality(ids) ELSE Cardinality(ids \cap docs)

\* One call on target_backend, as logged.
LogEntry(op, src, j, upsert) == <<op, src, j, upsert>>

\* target_backend.update of batch j of src, as logged with the count it
\* returned.
LogUpdate(src, j, upsert, ret) == <<"update", src, j, upsert, ret>>

\* --------------------------------------------------------- merge_sources
\* get_root_document_sources(): _build_config.get(doc_root_key, []).
GetRootDocumentSources == IF doc_root_key THEN root_cfg ELSE {}

\* list(set(X)): the elements of X once each, in an order the build picks.
ListsOfSet(X) ==
    {p \in [1..Cardinality(X) -> X] : \A i, j \in DOMAIN p : i # j => p[i] # p[j]}

\* Reordered without the reordering: the names as given.
ReorderedAsGiven(source_names) == {source_names}

\* root_sources + other_sources for every order the two list(set(...)) can
\* produce.
Reordered(source_names) ==
    LET roots  == Range(source_names) \cap GetRootDocumentSources
        others == Range(source_names) \ roots
    IN  {r \o o : r \in ListsOfSet(roots), o \in ListsOfSet(others)}

\* Upsert for a merge_source that upserts whatever the source.
UpsertAlways(src_name) == TRUE

\* get_src_master_docs()[src_name].get('id_type'): "None" for a source that
\* declares no identifier type.
SrcIdType(src_name) ==
    CASE src_name = "a" -> "None"
      [] src_name = "b" -> "entrez"
      [] OTHER          -> "symbol"

\* The name of default_mapper_class(), which the constructor always
\* registers.
DefaultMapper == "None"

\* get_mapper_for_source raises BuilderException: init_mapper's
\* self.id_mappers[id_type] raises KeyError.
NoMapperFor(src_name) == SrcIdType(src_name) \notin id_mappers

\* upsert of merge_source.
Upsert(src_name) == (~doc_root_key) \/ src_name \in GetRootDocumentSources

\* StatsUpdate forgetting the sources merged before.
StatsUpdateReplace(st, src_name, n) == {<<src_name, n>>}

\* _stats.update({"total_<src>": cnt}); the key is written as the source.
StatsUpdate(st, src_name, n) == {e \in st : e[1] # src_name} \cup {<<src_name, n>>}

\* -------------------------------------------------------------------- merge
\* The sources argument of merge: None, a single name, or a list.
ArgNone == [kind |-> "none", list |-> <<>>]
ArgStr(s) == [kind |-> "str", list |-> <<s>>]
ArgList(l) == [kind |-> "list", list |-> l]

\* merge's normalisation of its sources argument.
Normalized(arg) == IF arg.kind = "none" THEN ConfigSources ELSE arg.list

\* DropAndPrepare dropping whatever the sources argument.
DropAlways(arg) ==
    /\ target_docs' = {}
    /\ target_log' = target_log \o <<LogEntry("drop", "", 0, FALSE),
                                     LogEntry("prepare", "", 0, FALSE)>>

\* The target calls merge makes before the try block: drop and prepare when
\* no explicit sources are given.
DropAndPrepare(arg) ==
    IF arg.kind = "none"
    THEN /\ target_docs' = {}
         /\ target_log' = target_log \o <<LogEntry("drop", "", 0, FALSE),
                                          LogEntry("prepare", "", 0, FALSE)>>
    ELSE UNCHANGED <<target_docs, target_log>>

\* The build={...} of merge's first registration.
InitExtra(srcs) ==
    ExtraBuild([EmptyDict EXCEPT !["step"] = <<"init">>, !["sources"] = <<srcs>>])

\* The build={...} of merge's failure registration.
FailedExtra(e) == ExtraBuild([EmptyDict EXCEPT !["err"] = <<e>>])

\* ProgressExtra without the step.
ProgressExtraNoStep(src_name, i, n) ==
    ExtraBuild([EmptyDict EXCEPT !["progress"] = <<<<i, n>>>>])

\* The build={...} of merge_sources' progress registration.
ProgressExtra(src_name, i, n) ==
    ExtraBuild([EmptyDict EXCEPT !["step"] = <<src_name>>, !["progress"] = <<<<i, n>>>>])

\* The build={...} of merge's success registration.
SuccessExtra(st, versions) ==
    ExtraBuild([EmptyDict EXCEPT !["stats"] = <<st>>, !["src_versions"] = <<versions>>])

\* source_backend.get_src_versions()
SrcVersions == "v1"

\* getattr(self, '_stats', None) in merge's finally block: neither the
\* constructor nor merge assigns the attribute (merge keeps the statistics
\* in the local _stats), so it is absent.
SelfStats == <<>>

\* d[key] on a statistics dict (a set of <<name, count>> pairs standing for
\* the keys "total_<name>"): the option of its value.
StatsGet(d, name) ==
    IF \E x \in d : x[1] = name
    THEN <<(CHOOSE x \in d : x[1] = name)[2]>>
    ELSE <<>>

\* The finally block of merge: nothing when self._stats is absent or empty;
\* otherwise target.count() is compared with self._stats['total_documents']
\* and a mismatch is logged with self._stats['total_genes'], a missing key
\* raising KeyError.
ValidateStats(self_stats, target_cnt) ==
    IF self_stats = <<>> \/ self_stats[1] = {} THEN "skipped"
    ELSE IF StatsGet(self_stats[1], "documents") = <<>> THEN "KeyError"
    ELSE IF StatsGet(self_stats[1], "documents")[1] = target_cnt THEN "validated"
    ELSE IF StatsGet(self_stats[1], "genes") = <<>> THEN "KeyError"
    ELSE "warning"

\* target_backend.target_collection.count()
TargetCount(docs) == Cardinality(docs)

\* merge from its entry to the end of merge_sources' reordering (or, when the
\* first registration raises, to the re-raise of the except block, whose own
\* registration raises the same way).  tn is the target_name argument, ""
\* for None.
MergeEnter(arg, tn) ==
    LET srcs == Normalized(arg)
        tgt  == IF tn # "" THEN tn ELSE target_name
    IN  /\ t0' = now
        /\ log_start' = Len(target_log)
        /\ DropAndPrepare(arg)
        /\ target_name' = tgt
        /\ sources' = srcs
        /\ stats' = {}
        /\ cnt' = 0
        /\ batch' = 0
        /\ idx' = 1
        /\ IF RegisterRaises(build, InitExtra(srcs))
           THEN /\ build' = build
                /\ now' = now + 2
                /\ order' = <<>>
                /\ pc' = "idle"
                /\ outcome' = "raised"
                /\ error' = "IndexError"
                /\ raised_at' = "init"
                /\ validation' = ValidateStats(SelfStats, TargetCount(target_docs'))
           ELSE /\ build' = RegisterStatus(build, "building", TRUE, TRUE, InitExtra(srcs), tgt)
                /\ now' = now + 1
                /\ order' \in Reordered(srcs)
                /\ pc' = IF srcs = <<>> THEN "finalize" ELSE "source"
                /\ outcome' = "running"
                /\ error' = ""
                /\ raised_at' = ""
                /\ validation' = "none"

\* merge_sources' loop head for source idx: the progress registration, then
\* merge_source up to its first batch.
SourceStart ==
    /\ pc = "source"
    /\ build' = RegisterStatus(build, "success", TRUE, FALSE,
                               ProgressExtra(order[idx], idx, Len(order)), target_name)
    /\ now' = now + 1
    /\ cnt' = 0
    /\ batch' = 0
    /\ pc' = "batch"
    /\ UNCHANGED <<doc_root_key, root_cfg, id_mappers, graph, race, target_name, target_docs, target_log,
                   sources, order, idx, stats, t0, calls, last_call, outcome, error,
                   raised_at, log_start, validation>>

\* One iteration of merge_source's loop: batch + 1 of the current source is
\* written to the target.  After the last batch merge_source returns and
\* merge_sources records its statistics and moves on.
BatchWrite ==
    /\ pc = "batch"
    /\ batch < NumBatches
    /\ ~NoMapperFor(order[idx])
    /\ LET src == order[idx]
           ids == BatchIds(src, batch + 1)
           up  == Upsert(src)
           ret == TargetAffected(target_docs, ids, up)
           n   == cnt + ret
       IN  /\ target_docs' = TargetWrite(target_docs, ids, up)
           /\ target_log' = Append(target_log, LogUpdate(src, batch + 1, up, ret))
           /\ cnt' = n
           /\ batch' = batch + 1
           /\ IF batch + 1 = NumBatches
              THEN /\ stats' = StatsUpdate(stats, src, n)
                   /\ idx' = idx + 1
                   /\ pc' = IF idx + 1 > Len(order) THEN "finalize" ELSE "source"
              ELSE UNCHANGED <<stats, idx, pc>>
    /\ UNCHANGED <<build, doc_root_key, root_cfg, id_mappers, graph, race, target_name, sources, order,
                   t0, now, calls, last_call, outcome, error, raised_at, log_start, validation>>

\* target_backend.finalize() at the end of merge_sources.
Finalize ==
    /\ pc = "finalize"
    /\ target_log' = Append(target_log, LogEntry("finalize", "", 0, FALSE))
    /\ pc' = "post_merge"
    /\ UNCHANGED <<build, doc_root_key, root_cfg, id_mappers, graph, race, target_name, target_docs, sources,
                   order, idx, batch, cnt, stats, t0, now, calls, last_call,
                   outcome, error, raised_at, log_start, validation>>

\* target_backend.post_merge()
PostMerge ==
    /\ pc = "post_merge"
    /\ target_log' = Append(target_log, LogEntry("post_merge", "", 0, FALSE))
    /\ pc' = "src_versions"
    /\ UNCHANGED <<build, doc_root_key, root_cfg, id_mappers, graph, race, target_name, target_docs, sources,
                   order, idx, batch, cnt, stats, t0, now, calls, last_call,
                   outcome, error, raised_at, log_start, validation>>

\* source_backend.get_src_versions(), then the success registration, the
\* finally block and the return of merge.
RegisterSuccess ==
    /\ pc = "src_versions"
    /\ build' = RegisterStatus(build, "success", FALSE, FALSE,
                               SuccessExtra(stats, SrcVersions), target_name)
    /\ now' = now + 1
    /\ pc' = "idle"
    /\ validation' = ValidateStats(SelfStats, TargetCount(target_docs))
    /\ IF validation' = "KeyError"
       THEN outcome' = "raised" /\ error' = "KeyError" /\ raised_at' = "finally"
       ELSE outcome' = "returned" /\ UNCHANGED <<error, raised_at>>
    /\ UNCHANGED <<doc_root_key, root_cfg, id_mappers, graph, race, target_name, target_docs, target_log,
                   sources, order, idx, batch, cnt, stats, t0, calls, last_call,
                   log_start>>

\* What the except clause of merge catches, (KeyboardInterrupt, Exception):
\* both take the same path and differ in repr(e) alone, so one value stands
\* for either.
Exceptions == {"Exception"}

\* An exception e inside the try block of merge, after the first
\* registration: the except block registers "failed" and re-raises, the
\* finally block running last.
Raise(e) ==
    /\ pc \in {"source", "batch", "finalize", "post_merge", "src_versions"}
    /\ build' = RegisterStatus(build, "failed", FALSE, FALSE, FailedExtra(e), target_name)
    /\ now' = now + 1
    /\ pc' = "idle"
    /\ outcome' = "raised"
    /\ validation' = ValidateStats(SelfStats, TargetCount(target_docs))
    /\ error' = IF validation' = "KeyError" THEN "KeyError" ELSE e
    /\ raised_at' = pc
    /\ UNCHANGED <<doc_root_key, root_cfg, id_mappers, graph, race, target_name, target_docs, target_log,
                   sources, order, idx, batch, cnt, stats, t0, calls, last_call,
                   log_start>>

\* merge_source's first statement, get_mapper_for_source, raises for a source
\* whose id_type has no registered mapper; merge's except block registers
\* "failed" and re-raises.
NoMapper ==
    /\ pc = "batch"
    /\ batch = 0
    /\ NoMapperFor(order[idx])
    /\ Raise("BuilderException")

\* The attempt before a call: merge's sources, how the call ended and where
\* it raised, and where its part of target_log starts.
Attempt == [sources |-> sources, outcome |-> outcome, raised_at |-> raised_at,
            log_start |-> log_start]

\* No attempt yet.
NoAttempt == [sources |-> <<>>, outcome |-> "none", raised_at |-> "", log_start |-> 0]

\* What last_call holds: the call, whether it entered merge, merge's
\* arguments, and the attempt before it.
Call(op, invoked, arg, tn, prev) ==
    [op |-> op, invoked |-> invoked, arg |-> arg, tn |-> tn, prev |-> prev]

\* The (sources, target_name) arguments callers pass to merge; "" is the
\* target_name None.
MergeArgs ==
    {<<ArgNone, "">>, <<ArgStr("b"), "">>, <<ArgList(<<>>), "">>,
     <<ArgList(<<"c", "a", "b">>), "t1">>, <<ArgList(<<"b", "a", "b">>), "">>}

\* A call of merge(sources, target_name): the first call of a behaviour
\* (earlier merges are the prior history), the later calls being resumptions.
MergeCall(arg, tn) ==
    /\ pc = "idle"
    /\ calls = 0
    /\ calls' = calls + 1
    /\ last_call' = Call("merge", TRUE, arg, tn, Attempt)
    /\ MergeEnter(arg, tn)
    /\ UNCHANGED <<doc_root_key, root_cfg, id_mappers, graph, race>>

\* ------------------------------------------------------------- merge_resume
\* source_backend.validate_sources(sources): fails on an undeclared name.
ValidateSources(srcs) == Range(srcs) \subseteq SourceNames

\* The messages of the ResumeExceptions merge_resume raises.
MsgNoBuild == "No build bound for configuration, can't resume"
MsgNoSources == "No 'sources' found"
MsgNoStep == "No 'step' found"
MsgStepNotInSources == "Step isn't part of sources used for the merge"
MsgNoTargetName == "No target_name found"
MsgNothingToResume == "Nothing to resume"

\* build.get("status", "success")
StatusOrDefault(b) == IF Get(b, "status") = <<>> THEN "success" ELSE Get(b, "status")[1]

\* ResumeCheck without its last check: a record of any status is resumed.
ResumeCheckAnyStatus(hist) ==
    IF Len(hist) = 0 THEN MsgNoBuild
    ELSE LET b == hist[Len(hist)]
         IN  IF ~TruthyList(Get(b, "sources")) THEN MsgNoSources
             ELSE IF ~TruthyStr(Get(b, "step")) THEN MsgNoStep
             ELSE IF Get(b, "step")[1] \notin Range(Get(b, "sources")[1])
                  THEN MsgStepNotInSources
             ELSE IF ~TruthyStr(Get(b, "target_name")) THEN MsgNoTargetName
             ELSE "ok"

\* The checks of merge_resume, in order: the message of the ResumeException
\* raised, or "ok".
ResumeCheck(hist) ==
    IF Len(hist) = 0 THEN MsgNoBuild
    ELSE LET b == hist[Len(hist)]
         IN  IF ~TruthyList(Get(b, "sources")) THEN MsgNoSources
             ELSE IF ~TruthyStr(Get(b, "step")) THEN MsgNoStep
             ELSE IF Get(b, "step")[1] \notin Range(Get(b, "sources")[1])
                  THEN MsgStepNotInSources
             ELSE IF ~TruthyStr(Get(b, "target_name")) THEN MsgNoTargetName
             ELSE IF StatusOrDefault(b) # "failed" THEN MsgNothingToResume
             ELSE "ok"

\* ResumeSources starting after the failed step instead of at it.
ResumeSourcesAfterStep(hist) ==
    LET b == hist[Len(hist)]
    IN  SliceFrom(Get(b, "sources")[1], IndexOf(Get(b, "sources")[1], Get(b, "step")[1]) + 1)

\* sources[sources.index(step):] of the last record.
ResumeSources(hist) ==
    LET b == hist[Len(hist)]
    IN  SliceFrom(Get(b, "sources")[1], IndexOf(Get(b, "sources")[1], Get(b, "step")[1]))

\* ResumeRaises with the target dropped before the raise.
ResumeRaisesAfterDrop(e) ==
    /\ outcome' = "raised"
    /\ error' = e
    /\ last_call' = Call("merge_resume", FALSE, ArgNone, "", Attempt)
    /\ raised_at' = "merge_resume"
    /\ DropAlways(ArgNone)
    /\ UNCHANGED <<build, target_name, pc, sources, order, idx, batch, cnt, stats,
                   t0, now, log_start, validation>>

\* merge_resume raises e before it calls merge: nothing has been written.
ResumeRaises(e) ==
    /\ outcome' = "raised"
    /\ error' = e
    /\ last_call' = Call("merge_resume", FALSE, ArgNone, "", Attempt)
    /\ raised_at' = "merge_resume"
    /\ UNCHANGED <<build, target_name, target_docs, target_log, pc, sources,
                   order, idx, batch, cnt, stats, t0, now, log_start, validation>>

\* A call of merge_resume().
MergeResume ==
    /\ pc = "idle"
    /\ calls < MaxCalls
    /\ calls' = calls + 1
    /\ UNCHANGED <<doc_root_key, root_cfg, id_mappers, graph, race>>
    /\ IF ResumeCheck(build) # "ok"
       THEN ResumeRaises(ResumeCheck(build))
       ELSE LET srcs == ResumeSources(build)
                tn   == Get(build[Len(build)], "target_name")[1]
            IN  IF ~ValidateSources(srcs)
                THEN ResumeRaises("AssertionError")
                ELSE /\ last_call' = Call("merge_resume", TRUE, ArgList(srcs), tn, Attempt)
                     /\ MergeEnter(ArgList(srcs), tn)

\* ------------------------------------------------------------ read accessors
\* getattr(self, 'src_build', None): no method assigns self.src_build (the
\* ledger collection is reached as self.source_backend.build), so it is
\* absent.
SelfSrcBuild == <<>>

\* What a read accessor does: returns None, returns a value, or raises.
Returned(kind, value) == [kind |-> kind, value |-> value]

\* get_last_src_build_stats() on the persisted history hist.
GetLastSrcBuildStats(hist) ==
    IF SelfSrcBuild = <<>> THEN Returned("None", {})
    ELSE IF hist = <<>> THEN Returned("IndexError", {})
    ELSE LET b == hist[Len(hist)]
         IN  IF Get(b, "status") = <<"success">>
                /\ Get(b, "stats") # <<>> /\ Get(b, "stats")[1] # {}
             THEN Returned("value", Get(b, "stats")[1])
             ELSE Returned("None", {})

\* ================================================================ RecChain
\* nx.DiGraph(): no node, no edge.
EmptyGraph == [nodes |-> <<>>, edges |-> <<>>]

\* DiGraph.add_node(n): a node already present is left where it is.
add_node(g, n) ==
    IF n \in Range(g.nodes) THEN g ELSE [g EXCEPT !.nodes = Append(@, n)]

\* DiGraph.add_edge(u, v): adds u, then v, when missing; an edge already
\* present is left where it is.
add_edge(g, u, v) ==
    LET g2 == add_node(add_node(g, u), v)
    IN  IF <<u, v>> \in Range(g2.edges) THEN g2
        ELSE [g2 EXCEPT !.edges = Append(@, <<u, v>>)]

\* RecChain.add_root(obj1)
add_root(g, obj1) == add_node(g, obj1)

\* RecChain.add(obj1, obj2)
add(g, obj1, obj2) == add_edge(add_node(g, obj2), obj1, obj2)

\* DiGraph.out_edges(n) and in_edges(n), in insertion order.
out_edges(g, n) == SelectSeq(g.edges, LAMBDA e : e[1] = n)
in_edges(g, n) == SelectSeq(g.edges, LAMBDA e : e[2] = n)

out_degree(g, n) == Len(out_edges(g, n))
in_degree(g, n) == Len(in_edges(g, n))

\* root_nodes without its in-degree test.
root_nodes_by_out_degree(g) == SelectSeq(g.nodes, LAMBDA x : out_degree(g, x) = 1)

\* RecChain.root_nodes()
root_nodes(g) ==
    SelectSeq(g.nodes, LAMBDA x : out_degree(g, x) = 1 /\ in_degree(g, x) = 0)

\* RecChain.leaf_nodes()
leaf_nodes(g) ==
    SelectSeq(g.nodes, LAMBDA x : out_degree(g, x) = 0 /\ in_degree(g, x) = 1)

RECURSIVE find_leaf(_, _)
RECURSIVE find_leaf_first(_, _)
RECURSIVE LeavesOver(_, _)

\* The loop of find_leaf over out_edges(n): what find_leaf yields for the
\* head of every edge of es, in order.
LeavesOver(g, es) ==
    IF es = <<>> THEN <<>>
    ELSE find_leaf(g, Head(es)[2]) \o LeavesOver(g, Tail(es))

\* find_leaf following the first outgoing edge alone.
find_leaf_first(g, n) ==
    IF out_degree(g, n) = 0 THEN <<n>>
    ELSE find_leaf_first(g, out_edges(g, n)[1][2])

\* RecChain.find_leaf(n): what the generator yields, in order.  The recursion
\* has no end when a cycle can be reached from n.
find_leaf(g, n) ==
    IF out_degree(g, n) = 0 THEN <<n>>
    ELSE LeavesOver(g, out_edges(g, n))

\* The loop of find_root over in_edges(n): find_leaf of the tail v1 of every
\* edge of es, in order.
RECURSIVE RootsOver(_, _)
RootsOver(g, es) ==
    IF es = <<>> THEN <<>>
    ELSE find_leaf(g, Head(es)[1]) \o RootsOver(g, Tail(es))

\* RecChain.find_root(n): what the generator yields, in order.
find_root(g, n) ==
    IF in_degree(g, n) = 0 THEN <<n>>
    ELSE RootsOver(g, in_edges(g, n))

\* The Python values handed to lookup and find_left as obj1 / ids: one
\* identifier (an int, as in test_recchain.py) or a list of identifiers.
PyInt(n) == [kind |-> "int", items |-> <<n>>]
PyList(l) == [kind |-> "list", items |-> l]

\* What a generator does when consumed: the values it yields and the
\* exception that ends it, "" for none.
Generated(yields, raises) == [yields |-> yields, raises |-> raises]

\* find_leaf of every element of ids, in order.
RECURSIVE LeftOver(_, _)
LeftOver(g, l) ==
    IF l = <<>> THEN <<>>
    ELSE find_leaf(g, Head(l)) \o LeftOver(g, Tail(l))

\* RecChain.find_left(ids): "for id in ids" raises TypeError on an int.
find_left(g, ids) ==
    IF ids.kind = "int" THEN Generated(<<>>, "TypeError")
    ELSE Generated(LeftOver(g, ids.items), "")

\* RecChain.lookup(obj1, obj2): "True", "False", or the exception raised
\* while find_left(obj1) is consumed.
lookup(g, obj1, obj2) ==
    LET left == find_left(g, obj1)
    IN  IF obj2 \in Range(left.yields) THEN "True"
        ELSE IF left.raises # "" THEN left.raises
        ELSE "False"

\* (r, l) for l in ls
PairsOf(r, ls) == [i \in 1..Len(ls) |-> <<r, ls[i]>>]

\* RecChain.__iter__ over the roots rs.
RECURSIVE IterOver(_, _)
IterOver(g, rs) ==
    IF rs = <<>> THEN <<>>
    ELSE PairsOf(Head(rs), find_leaf(g, Head(rs))) \o IterOver(g, Tail(rs))

\* RecChain.__iter__: the pairs yielded, in order.
iter(g) == IterOver(g, root_nodes(g))

\* RecChain.id_lst: list(set(...)), of which the elements alone are fixed.
id_lst(g) == {p[2] : p \in Range(iter(g))}

\* self.add(obj1, obj2) for every pair of pairs, in order.
RECURSIVE AddAll(_, _)
AddAll(g, pairs) ==
    IF pairs = <<>> THEN g
    ELSE AddAll(add(g, Head(pairs)[1], Head(pairs)[2]), Tail(pairs))

\* RecChain.__iadd__(other) for a RecChain other: self's graph afterwards;
\* other is only iterated.
iadd(g, other) == AddAll(g, iter(other))

\* Identifiers handed to add_root and add.
Ids == {1, 2, 3}

\* The RecChains given as the right operand of +=, by the add calls that
\* built them: none, one edge, a chain through an intermediate node, and a
\* root with two outgoing edges.
FragmentEdges ==
    {<<>>, << <<1, 2>> >>, << <<2, 3>> >>, << <<1, 2>>, <<2, 3>> >>,
     << <<1, 2>>, <<1, 3>> >>}

Fragments == {AddAll(EmptyGraph, es) : es \in FragmentEdges}

\* A call of add_root(obj1).
AddRoot(obj1) ==
    /\ graph' = add_root(graph, obj1)
    /\ UNCHANGED builder_vars

\* A call of add(obj1, obj2).
Add(obj1, obj2) ==
    /\ Len(add(graph, obj1, obj2).edges) <= MaxEdges
    /\ graph' = add(graph, obj1, obj2)
    /\ UNCHANGED builder_vars

\* self += other
IAdd(other) ==
    /\ Len(iadd(graph, other).edges) <= MaxEdges
    /\ graph' = iadd(graph, other)
    /\ UNCHANGED builder_vars

\* ----------------------------------------- register_status, step by step
\* Two orchestrators bound to the same build configuration.  Each one makes
\* the register_status calls of a merge, and every statement of
\* register_status that reads or writes the persisted document is a step of
\* its own: nothing in the code makes the sequence atomic.
Procs == {1, 2}

\* How many register_status calls each orchestrator makes.
RaceCalls == 2

\* The one source the merge of orchestrator p was asked for.
RaceSource(p) == IF p = 1 THEN "a" ELSE "b"

\* The k-th register_status call of orchestrator p's merge: the first
\* registration of merge, the progress registration of merge_sources, then
\* the success registration of merge.
RaceCall(p, k) ==
    CASE k = 1 -> [status |-> "building", transient |-> TRUE, init |-> TRUE,
                   extra |-> InitExtra(<<RaceSource(p)>>)]
      [] k = 2 -> [status |-> "success", transient |-> TRUE, init |-> FALSE,
                   extra |-> ProgressExtra(RaceSource(p), 1, 1)]
      [] OTHER -> [status |-> "success", transient |-> FALSE, init |-> FALSE,
                   extra |-> SuccessExtra({}, SrcVersions)]

\* build_info of that call.
RaceInfo(p, k) ==
    FullInfo(RaceCall(p, k).status, RaceCall(p, k).transient, RaceCall(p, k).extra,
             target_name)

\* src_build.find_one({'_id': ...}): a private copy of the document as it is
\* at the time of the read.
find_one(doc) == doc

\* replace_one writing the copy without its last record.
replace_one_without_last(doc, _cfg) == SubSeq(_cfg, 1, Len(_cfg) - 1)

\* src_build.replace_one({'_id': ...}, _cfg): the whole persisted document
\* becomes the private copy, whatever it held.
replace_one(doc, _cfg) == _cfg

\* Both orchestrators outside register_status, none of their calls made;
\* base is the length of the persisted history at that time.  pushes and pops
\* count the records $push added and $pop removed, overlap records that a
\* call started while the other orchestrator's call was under way.
RaceIdle(base) ==
    [proc |-> [p \in Procs |-> [pc |-> "idle", k |-> 0, cfg |-> <<>>, howmany |-> 0]],
     base |-> base, pushes |-> 0, pops |-> 0, overlap |-> FALSE]

RaceRest ==
    UNCHANGED <<doc_root_key, root_cfg, id_mappers, target_name, target_docs, target_log,
                pc, sources, order, idx, batch, cnt, stats, t0, now, calls,
                last_call, outcome, error, raised_at, log_start, validation, graph>>

\* _cfg = src_build.find_one(...): orchestrator p enters its next call.
RaceFind(p) ==
    /\ race.proc[p].pc = "idle"
    /\ race.proc[p].k < RaceCalls
    /\ race' = [race EXCEPT
                  !.proc[p].pc = "replace",
                  !.proc[p].k = @ + 1,
                  !.proc[p].cfg = find_one(build),
                  !.overlap = @ \/ \E q \in Procs \ {p} : race.proc[q].pc # "idle"]
    /\ UNCHANGED build
    /\ RaceRest

\* if "build" in extra: _cfg["build"][-1].update(build_info); replace_one.
\* On an empty copy the subscript raises IndexError, which ends the merge.
RaceReplace(p) ==
    /\ race.proc[p].pc = "replace"
    /\ LET me == race.proc[p]
           call == RaceCall(p, me.k)
       IN  IF RegisterRaises(me.cfg, call.extra)
           THEN /\ race' = [race EXCEPT !.proc[p].pc = "idle", !.proc[p].k = RaceCalls]
                /\ UNCHANGED build
           ELSE LET _cfg == MergeIntoLast(me.cfg, RaceInfo(p, me.k), call.extra)
                IN  /\ build' = IF call.extra.has_build THEN replace_one(build, _cfg)
                                                       ELSE build
                    /\ race' = [race EXCEPT
                                  !.proc[p].cfg = _cfg,
                                  !.proc[p].pc = IF call.init THEN "push" ELSE "idle"]
    /\ RaceRest

\* if init: the $push, applied by the server to the document as it is now;
\* howmany is then computed on the private copy.
RacePush(p) ==
    /\ race.proc[p].pc = "push"
    /\ LET me == race.proc[p]
           call == RaceCall(p, me.k)
       IN  /\ build' = Pushed(build, RaceInfo(p, me.k), call.init)
           /\ race' = [race EXCEPT
                         !.pushes = @ + 1,
                         !.proc[p].howmany = HowMany(me.cfg, call.init),
                         !.proc[p].pc = IF HowMany(me.cfg, call.init) > 0
                                        THEN "pop" ELSE "idle"]
    /\ RaceRest

\* One $pop -1 of the loop, applied by the server to the document as it is
\* now (it leaves an empty list empty).
RacePop(p) ==
    /\ race.proc[p].pc = "pop"
    /\ build' = Popped(build, 1)
    /\ race' = [race EXCEPT
                  !.pops = IF build = <<>> THEN @ ELSE @ + 1,
                  !.proc[p].howmany = @ - 1,
                  !.proc[p].pc = IF race.proc[p].howmany > 1 THEN "pop" ELSE "idle"]
    /\ RaceRest

\* ------------------------------------------------------------ initial states
\* A record a failed merge of the declared sources leaves.
FailedRecord ==
    [EmptyDict EXCEPT
        !["status"] = <<"failed">>, !["started_at"] = <<0>>,
        !["target_name"] = <<"t0">>, !["pid"] = <<Pid>>, !["time"] = <<1>>,
        !["step"] = <<"b">>, !["sources"] = <<ConfigSources>>,
        !["progress"] = <<<<2, 3>>>>, !["err"] = <<"Exception">>]

\* A record a successful merge of the declared sources leaves.
SuccessRecord ==
    [EmptyDict EXCEPT
        !["status"] = <<"success">>, !["started_at"] = <<0>>,
        !["target_name"] = <<"t0">>, !["pid"] = <<Pid>>, !["time"] = <<1>>,
        !["step"] = <<"c">>, !["sources"] = <<ConfigSources>>,
        !["progress"] = <<<<3, 3>>>>, !["stats"] = <<{<<"a", 2>>, <<"b", 2>>, <<"c", 2>>}>>,
        !["src_versions"] = <<SrcVersions>>]

\* The histories a behaviour starts from: none, and what earlier merges
\* left, up to max_build_status records.
PriorHistories == {<<>>, <<FailedRecord>>, <<SuccessRecord, FailedRecord>>}

\* Last records as found in the persisted document, which other writers
\* share: the two above, and records lacking what merge_resume looks for.
LastRecords ==
    {FailedRecord, SuccessRecord,
     [FailedRecord EXCEPT !["sources"] = <<>>],
     [FailedRecord EXCEPT !["sources"] = << <<>> >>],
     [FailedRecord EXCEPT !["step"] = <<>>],
     [FailedRecord EXCEPT !["step"] = <<"init">>],
     [FailedRecord EXCEPT !["target_name"] = <<>>],
     [FailedRecord EXCEPT !["status"] = <<"building">>],
     [FailedRecord EXCEPT !["status"] = <<>>],
     [FailedRecord EXCEPT !["sources"] = <<>>, !["step"] = <<>>,
                          !["status"] = <<"success">>]}

\* The mappers given to the constructor, with the default one: a mapper for
\* every declared id_type, or none for "entrez".
MapperRegistries == {{DefaultMapper, "entrez", "symbol"}, {DefaultMapper, "symbol"}}

\* Everything but the history, as the constructor leaves it.
InitRest ==
    /\ doc_root_key \in BOOLEAN
    /\ root_cfg \in IF doc_root_key THEN SUBSET SourceNames ELSE {{}}
    /\ id_mappers \in MapperRegistries
    /\ target_name = "t0"
    /\ target_docs = {}
    /\ target_log = <<>>
    /\ pc = "idle"
    /\ sources = <<>>
    /\ order = <<>>
    /\ idx = 1
    /\ batch = 0
    /\ cnt = 0
    /\ stats = {}
    /\ t0 = 0
    /\ now = 1
    /\ calls = 0
    /\ last_call = Call("none", FALSE, ArgNone, "", NoAttempt)
    /\ outcome = "none"
    /\ error = ""
    /\ raised_at = ""
    /\ log_start = 0
    /\ validation = "none"
    /\ graph = EmptyGraph

Init == build \in PriorHistories /\ InitRest /\ race = RaceIdle(0)

\* Initial states for merge_resume: a history of zero to two records ending
\* in any of LastRecords.
InitResume ==
    /\ build \in {<<>>} \cup {<<r>> : r \in LastRecords}
                        \cup {<<SuccessRecord, r>> : r \in LastRecords}
    /\ InitRest
    /\ race = RaceIdle(0)

Next ==
    \/ \E a \in MergeArgs : MergeCall(a[1], a[2])
    \/ MergeResume
    \/ SourceStart
    \/ BatchWrite
    \/ Finalize
    \/ PostMerge
    \/ RegisterSuccess
    \/ NoMapper
    \/ \E e \in Exceptions : Raise(e)

Spec == Init /\ [][Next]_vars

\* Calls of merge_resume alone, with the merges they enter.
NextResume ==
    \/ MergeResume
    \/ SourceStart
    \/ BatchWrite
    \/ Finalize
    \/ PostMerge
    \/ RegisterSuccess
    \/ NoMapper
    \/ \E e \in Exceptions : Raise(e)

SpecResume == InitResume /\ [][NextResume]_vars

\* The orchestrator as constructed, before any call.
BuilderIdle ==
    /\ build = <<>>
    /\ InitRest
    /\ race = RaceIdle(0)
    /\ ~doc_root_key
    /\ id_mappers = {DefaultMapper, "entrez", "symbol"}

\* A RecChain() on which add_root, add and += are called.
InitChain == BuilderIdle

NextChain ==
    \/ \E x \in Ids : AddRoot(x)
    \/ \E a, b \in Ids : Add(a, b)
    \/ \E other \in Fragments : IAdd(other)

SpecChain == InitChain /\ [][NextChain]_vars

\* test_construction: the documents of doc_lst and the edges it adds.
TestSeeds == {1, 2, 3}
TestEdges == {<<1, 2>>, <<2, 3>>, <<3, 4>>, <<3, 5>>}

\* The calls of test_construction on a RecChain, in any order.
NextTest ==
    \/ \E x \in TestSeeds : AddRoot(x)
    \/ \E e \in TestEdges : Add(e[1], e[2])

SpecTest == InitChain /\ [][NextTest]_vars

\* Histories the two orchestrators find: those of PriorHistories and one of
\* three records.
RaceHistories == PriorHistories \cup {<<SuccessRecord, SuccessRecord, FailedRecord>>}

\* Two orchestrators on one build configuration, each making the
\* register_status calls of a merge.
InitRace ==
    /\ build \in RaceHistories
    /\ InitRest
    /\ ~doc_root_key
    /\ id_mappers = {DefaultMapper, "entrez", "symbol"}
    /\ race = RaceIdle(Len(build))

NextRace ==
    \/ \E p \in Procs : RaceFind(p)
    \/ \E p \in Procs : RaceReplace(p)
    \/ \E p \in Procs : RacePush(p)
    \/ \E p \in Procs : RacePop(p)

SpecRace == InitRace /\ [][NextRace]_vars

\* ==================================================================== claims
Last(h) == h[Len(h)]

\* The part of target_log the current merge wrote.
RunLog == SubSeq(target_log, log_start + 1, Len(target_log))

\* A step that is a call of merge_resume.
ResumeStep == pc = "idle" /\ calls' = calls + 1 /\ last_call'.op = "merge_resume"

\* A step that enters merge, from a call of merge or from merge_resume.
MergeStep == pc = "idle" /\ calls' = calls + 1 /\ last_call'.invoked

\* C1: when merge raises while a source is being processed, the last record
\* has, on return, status failed, that source as step, and the source list
\* of the attempt as sources.
C1Theorem ==
    (pc = "idle" /\ outcome = "raised" /\ raised_at = "batch") =>
        /\ build # <<>>
        /\ Last(build)["status"] = <<"failed">>
        /\ Last(build)["step"] = <<order[idx]>>
        /\ Last(build)["sources"] = <<sources>>

\* C1 witness: a merge of three sources that raised after one batch of the
\* second source of its processing order.
C1Witness ==
    /\ pc = "idle" /\ outcome = "raised" /\ raised_at = "batch"
    /\ Len(order) = 3 /\ idx = 2 /\ batch = 1
    /\ Last(build)["step"] = <<order[2]>>

\* C2 as claimed: whenever merge raises, the last record of the history is
\* the attempt's, with status failed and an error description, and no record
\* of the history is left in status building (no prior history of Spec
\* holds one).
C2Claim ==
    (pc = "idle" /\ outcome = "raised" /\ last_call.invoked) =>
        /\ build # <<>>
        /\ Last(build)["status"] = <<"failed">>
        /\ Last(build)["err"] # <<>>
        /\ Last(build)["sources"] = <<sources>>
        /\ \A i \in DOMAIN build : build[i]["status"] # <<"building">>

\* seq's suffix that starts at the first occurrence of x.
IsSuffixFromFirst(suf, seq, x) ==
    \E k \in DOMAIN seq :
        /\ seq[k] = x
        /\ \A j \in 1..(k - 1) : seq[j] # x
        /\ suf = SubSeq(seq, k, Len(seq))

\* The last record is one the claim C3 speaks of.
Resumable(h) ==
    /\ h # <<>>
    /\ Last(h)["status"] = <<"failed">>
    /\ Last(h)["sources"] # <<>>
    /\ Last(h)["sources"][1] # <<>>
    /\ Last(h)["step"] # <<>>
    /\ Last(h)["step"][1] \in Range(Last(h)["sources"][1])
    /\ Last(h)["target_name"] # <<>>
    /\ Last(h)["target_name"][1] # ""

\* C3: on a failed last record with sources, a step among them and a target
\* name, merge_resume enters merge with the suffix of the recorded sources
\* that starts at the first occurrence of the step, and with the recorded
\* target name.
C3Theorem ==
    [][(ResumeStep /\ Resumable(build)) =>
          /\ last_call'.invoked
          /\ last_call'.arg.kind = "list"
          /\ IsSuffixFromFirst(last_call'.arg.list, Last(build)["sources"][1],
                               Last(build)["step"][1])
          /\ last_call'.tn = Last(build)["target_name"][1]
          /\ sources' = last_call'.arg.list
          /\ target_name' = last_call'.tn]_vars

\* C3 witness: merge_resume, called after a merge that failed, entered merge
\* with a proper suffix of two sources.
C3Witness ==
    /\ calls = 2
    /\ last_call.op = "merge_resume" /\ last_call.invoked
    /\ Len(last_call.arg.list) = 2

\* merge_resume refused with the ResumeException of message msg (primed
\* state) and did not enter merge.
Refused(msg) ==
    /\ ~last_call'.invoked
    /\ outcome' = "raised"
    /\ error' = msg
    /\ pc' = "idle"

Updates(log, s, j) ==
    {i \in DOMAIN log : log[i][1] = "update" /\ log[i][2] = s /\ log[i][3] = j}

\* The listed sources that are declared root sources.
ListedRoots == Range(sources) \cap (IF doc_root_key THEN root_cfg ELSE {})

\* C5: in a merge every batch of every listed root source is written before
\* any batch of a listed non-root source, no batch is written twice, only
\* listed sources are written, and once the loop is over every batch of
\* every listed source has been written exactly once.
C5Theorem ==
    last_call.invoked =>
        LET log    == RunLog
            listed == Range(sources)
            roots  == ListedRoots
            over   == pc \in {"finalize", "post_merge", "src_versions"}
                      \/ (pc = "idle" /\ outcome = "returned")
        IN  /\ \A i \in DOMAIN log :
                  log[i][1] = "update" =>
                      /\ log[i][2] \in listed
                      /\ log[i][2] \notin roots =>
                            \A r \in roots, j \in 1..NumBatches :
                                \E i2 \in 1..(i - 1) :
                                    log[i2][1] = "update" /\ log[i2][2] = r /\ log[i2][3] = j
            /\ \A s \in listed, j \in 1..NumBatches :
                  LET n == Cardinality(Updates(log, s, j))
                  IN  n <= 1 /\ (over => n = 1)

\* C5 witness: a completed merge of [c, a, b] with b the only declared root
\* source, which was processed first.
C5Witness ==
    /\ pc = "idle" /\ outcome = "returned"
    /\ sources = <<"c", "a", "b">>
    /\ doc_root_key /\ root_cfg = {"b"}
    /\ order[1] = "b"
    /\ RunLog[1][2] = "b"

\* C6 as claimed: the history holds at most max_build_status records.
C6Claim == Len(build) <= max_build_status

C8Claim ==
    [][MergeStep =>
          /\ build' # <<>>
          /\ \E k \in 0..Len(build) : Len(build') = Len(build) - k + 1
          /\ Last(build')["status"] = <<"building">>
          /\ Last(build')["step"] = <<"init">>
          /\ Last(build')["sources"] = <<sources'>>
          /\ pc' \in {"source", "finalize"}]_vars

\* C9 as claimed: starting a new attempt changes no field of a record
\* already in the history; old records are evicted whole or kept as they
\* were.
C9Claim ==
    [][(MergeStep /\ raised_at' # "init") =>
          \E k \in 0..Len(build) :
              /\ Len(build') = Len(build) - k + 1
              /\ \A i \in (k + 1)..Len(build) :
                    \A f \in Fields : build'[i - k][f] = build[i][f]]_vars

\* C10 as claimed: while merge is processing (from the first registration to
\* the terminal one) the status of the run's record is building.
C10Claim ==
    pc \in {"source", "batch", "finalize", "post_merge", "src_versions"} =>
        Last(build)["status"] = <<"building">>

\* A step in which one batch is written to the target.
WriteStep ==
    /\ Len(target_log') = Len(target_log) + 1
    /\ Last(target_log')[1] = "update"

\* C11: every batch of a source s is written with upsert enabled exactly
\* when no root-document key is configured or s is a declared root source;
\* an upsert leaves every document of the batch in the target, and an
\* update-only write adds no document to the target.
C11Theorem ==
    [][WriteStep =>
          LET e == Last(target_log')
          IN  /\ e[4] <=> (~doc_root_key \/ e[2] \in root_cfg)
              /\ e[4] => BatchIds(e[2], e[3]) \subseteq target_docs'
              /\ ~e[4] => target_docs' \subseteq target_docs]_vars

\* C11 witness: a completed merge of [c, a, b] with b the only declared root
\* source wrote b with upsert and a and c update-only, and the target holds
\* the documents of b alone.
C11Witness ==
    /\ pc = "idle" /\ outcome = "returned"
    /\ doc_root_key /\ root_cfg = {"b"}
    /\ sources = <<"c", "a", "b">>
    /\ \A i \in DOMAIN RunLog :
          RunLog[i][1] = "update" => (RunLog[i][4] <=> RunLog[i][2] = "b")
    /\ target_docs = BatchIds("b", 1) \cup BatchIds("b", 2)

\* C12 as claimed: when merge raises because a listed source has no mapper,
\* no batch of that merge has been read from a source and written to the
\* target, and the error reaches the caller.
C12Claim ==
    (pc = "idle" /\ error = "BuilderException") =>
        /\ outcome = "raised"
        /\ \A i \in DOMAIN RunLog : RunLog[i][1] # "update"

\* What merge_sources' statistics add up to: the expected total.
RECURSIVE StatsTotal(_)
StatsTotal(st) ==
    IF st = {} THEN 0
    ELSE LET x == CHOOSE y \in st : TRUE IN x[2] + StatsTotal(st \ {x})

\* C13 as claimed: after a merge that computed statistics the target's
\* document count has been compared with the expected total, a difference
\* has been logged as a warning, and the merge has not raised nor turned its
\* record into failed because of it.
C13Claim ==
    (pc = "idle" /\ outcome = "returned" /\ stats # {}) =>
        /\ validation \in {"validated", "warning"}
        /\ TargetCount(target_docs) # StatsTotal(stats) => validation = "warning"
        /\ Last(build)["status"] = <<"success">>

\* C14 as claimed: between top-level calls, get_last_src_build_stats returns
\* the stats of the last record when that record has status success and
\* carries stats, and returns nothing when the history is empty or the last
\* record is not success.
C14Claim ==
    pc = "idle" =>
        LET ret == GetLastSrcBuildStats(build)
        IN  IF build # <<>> /\ Last(build)["status"] = <<"success">>
               /\ Last(build)["stats"] # <<>> /\ Last(build)["stats"][1] # {}
            THEN ret = Returned("value", Last(build)["stats"][1])
            ELSE (build = <<>> \/ Last(build)["status"] # <<"success">>)
                    => ret = Returned("None", {})

\* ------------------------------------------------------- the lineage graph
\* Nodes reached from the nodes of S along zero or more edges of g.
RECURSIVE ReachFrom(_, _)
ReachFrom(g, S) ==
    LET T == S \cup {e[2] : e \in {x \in Range(g.edges) : x[1] \in S}}
    IN  IF T = S THEN S ELSE ReachFrom(g, T)

\* g has no directed cycle, self-loops included.
Acyclic(g) == \A e \in Range(g.edges) : e[1] \notin ReachFrom(g, {e[2]})

\* The out-degree-0 nodes reachable from n.
ReachableLeaves(g, n) == {m \in ReachFrom(g, {n}) : out_degree(g, m) = 0}

\* Position of edge e in the insertion order of g's edges.
EdgePos(g, e) == CHOOSE i \in DOMAIN g.edges : g.edges[i] = e

C16Theorem ==
    Acyclic(graph) =>
        \A n \in Range(graph.nodes) :
            /\ Range(find_leaf(graph, n)) = ReachableLeaves(graph, n)
            /\ out_degree(graph, n) = 0 => find_leaf(graph, n) = <<n>>

\* C16 witness: node 1 reaches the leaf 3 directly and through 2, and
\* find_leaf(1) yields it once per path.
C16Witness ==
    /\ Range(graph.edges) = {<<1, 2>>, <<2, 3>>, <<1, 3>>}
    /\ find_leaf(graph, 1) = <<3, 3>>
    /\ find_leaf(graph, 3) = <<3>>

\* C17 as claimed: on an acyclic graph, iteration yields exactly the pairs
\* (r, l) with r a node without incoming edge and with at least one outgoing
\* edge and l an out-degree-0 node reachable from r, and id_lst is the set
\* of these l.
C17Claim ==
    Acyclic(graph) =>
        LET roots == {n \in Range(graph.nodes) :
                        in_degree(graph, n) = 0 /\ out_degree(graph, n) >= 1}
            pairs == UNION {{<<r, l>> : l \in ReachableLeaves(graph, r)} : r \in roots}
        IN  /\ Range(iter(graph)) = pairs
            /\ id_lst(graph) = {p[2] : p \in pairs}

\* C18 as claimed: for every RecChain B, A += B leaves A with the edges it
\* had and the edges of B, and no other.
C18Claim ==
    \A B \in Fragments :
        Range(iadd(graph, B).edges) = Range(graph.edges) \cup Range(B.edges)

\* C19 as claimed: for every B and C, combining B into A twice gives the
\* edges of combining it once, and combining B then C into A gives the edges
\* of combining C into B and then B into A.
C19Claim ==
    \A B, C \in Fragments :
        /\ Range(iadd(iadd(graph, B), B).edges) = Range(iadd(graph, B).edges)
        /\ Range(iadd(iadd(graph, B), C).edges)
              = Range(iadd(graph, iadd(B, C)).edges)

\* C20 as claimed: the lineage graph has no directed cycle.
C20Claim == Acyclic(graph)

\* C21 as claimed: every leaf (a node without outgoing edge) is reachable
\* from at most one root (a node without incoming edge).
C21Claim ==
    \A l \in Range(graph.nodes) :
        out_degree(graph, l) = 0 =>
            Cardinality({r \in Range(graph.nodes) :
                            in_degree(graph, r) = 0 /\ l \in ReachFrom(graph, {r})}) <= 1

\* C22 as claimed: on an acyclic graph, for every identifier from_id of the
\* graph and every identifier to_id, lookup(from_id, to_id) returns True when
\* to_id is among the leaves find_leaf(from_id) yields and False otherwise.
C22Claim ==
    Acyclic(graph) =>
        \A from_id \in Range(graph.nodes), to_id \in Ids :
            lookup(graph, PyInt(from_id), to_id)
                = IF to_id \in Range(find_leaf(graph, from_id)) THEN "True" ELSE "False"

\* C23 as claimed: on an acyclic graph find_root(n) yields exactly the
\* in-degree-0 nodes from which n is reachable.
C23Claim ==
    Acyclic(graph) =>
        \A n \in Range(graph.nodes) :
            Range(find_root(graph, n))
                = {r \in Range(graph.nodes) :
                      in_degree(graph, r) = 0 /\ n \in ReachFrom(graph, {r})}

\* C24 as claimed: when a merge attempt failed while a source was being
\* processed and the merge_resume that followed has returned, every batch of
\* every source of the failed attempt's list has been written to the target
\* by one of the two attempts.
C24Claim ==
    (pc = "idle" /\ outcome = "returned"
     /\ last_call.op = "merge_resume" /\ last_call.invoked
     /\ last_call.prev.outcome = "raised" /\ last_call.prev.raised_at = "batch") =>
        LET log == SubSeq(target_log, last_call.prev.log_start + 1, Len(target_log))
        IN  \A s \in Range(last_call.prev.sources), j \in 1..NumBatches :
                Updates(log, s, j) # {}

\* A step that is merge_sources' progress registration, a register_status
\* with transient=True and init=False.
PingStep == pc = "source" /\ pc' = "batch"

\* C25 as claimed: a transient registration that starts no attempt keeps the
\* number of records and changes, in the last record, the process id, the
\* step and the progress alone: status, started_at and time stay as they
\* were.
C25Claim ==
    [][PingStep =>
          /\ Len(build') = Len(build)
          /\ \A i \in 1..(Len(build) - 1) : build'[i] = build[i]
          /\ \A f \in Fields \ {"pid", "step", "progress"} :
                Last(build')[f] = Last(build)[f]]_vars

\* Sum of the counts target_backend.update returned for source s in log.
RECURSIVE SumReturned(_, _)
SumReturned(log, s) ==
    IF log = <<>> THEN 0
    ELSE (IF Head(log)[1] = "update" /\ Head(log)[2] = s THEN Head(log)[5] ELSE 0)
         + SumReturned(Tail(log), s)

\* Positions of log holding a call op.
CallsOf(log, op) == {i \in DOMAIN log : log[i][1] = op}

\* C26: when merge returns, the last record has status success, an elapsed
\* time, the source versions, and stats with exactly one entry per source
\* processed, holding the sum of the counts update returned over the
\* batches of that source; finalize and then post_merge have each been
\* called once, after the last write.
C26Theorem ==
    (pc = "idle" /\ outcome = "returned" /\ last_call.invoked) =>
        LET log == RunLog
            b   == Last(build)
        IN  /\ b["status"] = <<"success">>
            /\ b["time"] = <<now - 1 - t0>>
            /\ b["src_versions"] = <<SrcVersions>>
            /\ b["stats"] = <<{<<s, SumReturned(log, s)>> : s \in Range(sources)}>>
            /\ Cardinality(CallsOf(log, "finalize")) = 1
            /\ Cardinality(CallsOf(log, "post_merge")) = 1
            /\ Len(log) >= 2
            /\ log[Len(log) - 1][1] = "finalize"
            /\ log[Len(log)][1] = "post_merge"

\* C26 witness: a completed merge of [c, a, b] with b the only root source:
\* b upserted its four documents, a and c each updated two of them.
C26Witness ==
    /\ pc = "idle" /\ outcome = "returned"
    /\ sources = <<"c", "a", "b">>
    /\ Last(build)["stats"] = <<{<<"a", 2>>, <<"b", 4>>, <<"c", 2>>}>>
    /\ Last(build)["status"] = <<"success">>

\* C27: a call that enters merge drops and prepares the target exactly when
\* merge gets no explicit sources, which merge_resume never does; from the
\* entry of a resumed merge on, every document of the target stays in it.
C27Theorem ==
    [][/\ MergeStep =>
             LET dropped == target_log' # target_log
             IN  /\ dropped <=> last_call'.arg.kind = "none"
                 /\ dropped =>
                       /\ target_docs' = {}
                       /\ target_log' = target_log \o <<LogEntry("drop", "", 0, FALSE),
                                                        LogEntry("prepare", "", 0, FALSE)>>
                 /\ ~dropped => target_docs' = target_docs
                 /\ last_call'.op = "merge_resume" => ~dropped
       /\ (last_call'.op = "merge_resume" /\ last_call'.invoked) =>
             /\ target_docs \subseteq target_docs'
             /\ CallsOf(target_log', "drop") = CallsOf(target_log, "drop")]_vars

\* C27 witness: a merge_resume has returned and the target still holds the
\* documents an upsert of the failed attempt wrote.
C27Witness ==
    /\ pc = "idle" /\ outcome = "returned"
    /\ last_call.op = "merge_resume" /\ last_call.invoked
    /\ last_call.prev.outcome = "raised"
    /\ log_start > 0
    /\ \E i \in 1..log_start :
          /\ target_log[i][1] = "update" /\ target_log[i][4]
          /\ BatchIds(target_log[i][2], target_log[i][3]) \subseteq target_docs

\* The messages of the resumability failures.
ResumeMessages ==
    {MsgNoBuild, MsgNoSources, MsgNoStep, MsgStepNotInSources, MsgNoTargetName,
     MsgNothingToResume}

\* C28: a merge_resume that raises a resumability failure leaves the history
\* of build records and the target (its name, its documents, the calls made
\* on it) as they were, and the orchestrator outside merge.
C28Theorem ==
    [][(ResumeStep /\ ~last_call'.invoked /\ error' \in ResumeMessages) =>
          /\ outcome' = "raised"
          /\ build' = build
          /\ target_name' = target_name
          /\ target_docs' = target_docs
          /\ target_log' = target_log
          /\ pc' = "idle"]_vars

\* C28 witness: merge_resume refused a history whose last record is a
\* success, after a merge_resume that merged documents into the target.
C28Witness ==
    /\ last_call.op = "merge_resume" /\ ~last_call.invoked
    /\ error = MsgNothingToResume
    /\ calls = 2
    /\ target_docs # {}
    /\ Len(build) >= 2


\* Both orchestrators are outside register_status.
RaceQuiet == \A p \in Procs : race.proc[p].pc = "idle"

\* The records the persisted history holds if every $push added one record
\* and nothing but a $pop removed one.
RaceExpected == race.base + race.pushes - race.pops

\* C29: register_status reads the persisted document, changes its copy and
\* writes it back with no lock.  As long as no call of one orchestrator starts
\* while a call of the other is under way, the history holds exactly the
\* records pushed and not popped; once calls overlap, a write can lose them.
C29Theorem == ~race.overlap => Len(build) = RaceExpected

\* Both orchestrators have made their first registration, both are outside
\* register_status, and the history holds fewer records than were pushed and
\* not popped: a record one of them pushed was lost to the other's write.
C29Witness ==
    /\ RaceQuiet
    /\ \A p \in Procs : race.proc[p].k >= 1
    /\ race.pushes = 2
    /\ race.overlap
    /\ Len(build) < RaceExpected

====
